---- MODULE Spec2Model ----
(***************************************************************************)
(* PsfLauncher (src/PsfLauncher/main.cpp): launcher_main and               *)
(* LaunchMonitorInBackground as a state machine.  One launcher invocation  *)
(* runs against an operating system that creates processes, lets them      *)
(* exit, and answers waits.  Text is a sequence of one-character strings.  *)
(***************************************************************************)
EXTENDS Integers, Sequences, FiniteSets, TLC

(***************************************************************************)
(* Bounds of the model.                                                    *)
(***************************************************************************)
MaxStemLen == 1      \* longest run of "a" put in front of a name's ending
MaxExitCodes == 3    \* how many of the sample exit codes a child may use

(***************************************************************************)
(* Win32 constants the code names.                                         *)
(***************************************************************************)
ERROR_NOT_FOUND == 1168
ERROR_INVALID_HANDLE == 6
ERROR_ELEVATION_REQUIRED == 740
ERROR_FILE_NOT_FOUND == 2
ERROR_NO_ASSOCIATION == 1155
ERROR_UNHANDLED_EXCEPTION == 574
SE_ERR_FNF == 2
SE_ERR_NOASSOC == 31
ShellStartedAbove == 32
HInstStarted == 42
HalfWord == 65536        \* 2^16: a DWORD is kept as two 16-bit halves
HalfWordSign == 32768    \* 2^15: the high half from which the int is negative

(***************************************************************************)
(* Text helpers.                                                           *)
(***************************************************************************)
Upper == <<"A", "E", "X", "T">>
Lower == <<"a", "e", "x", "t">>

\* The case folding of iwstring_view's character comparison.
ToLower(c) ==
    IF \E i \in 1..Len(Upper) : Upper[i] = c
    THEN Lower[CHOOSE i \in 1..Len(Upper) : Upper[i] = c]
    ELSE c

\* iwstring_view::operator== : same length, equal character by character
\* after case folding.
IEquals(s, t) ==
    /\ Len(s) = Len(t)
    /\ \A i \in 1..Len(s) : ToLower(s[i]) = ToLower(t[i])

\* str.substr(pos): the characters from 0-based position pos to the end.
Substr(s, pos) == SubSeq(s, pos + 1, Len(s))

DotExe == <<".", "e", "x", "e">>

\* (the length test taken strictly: a name that is just the suffix fails)
check_suffix_if_strict(str, suffix) ==
    (Len(str) > Len(suffix)) /\ IEquals(Substr(str, Len(str) - Len(suffix)), suffix)

\* main.cpp:22-30
check_suffix_if(str, suffix) ==
    IF (Len(str) >= Len(suffix)) /\ IEquals(Substr(str, Len(str) - Len(suffix)), suffix)
    THEN TRUE
    ELSE FALSE

(***************************************************************************)
(* std::filesystem::path, Windows flavour, on the paths the launcher       *)
(* builds.                                                                 *)
(***************************************************************************)
Sep == "\\"
IsSep(c) == c = "\\" \/ c = "/"

\* Index of the last separator of p, 0 when there is none.
LastSep(p) ==
    IF \E i \in 1..Len(p) : IsSep(p[i])
    THEN CHOOSE i \in 1..Len(p) : IsSep(p[i]) /\ \A j \in (i + 1)..Len(p) : ~IsSep(p[j])
    ELSE 0

HasRootName(p) == Len(p) >= 2 /\ p[2] = ":"
RootName(p) == IF HasRootName(p) THEN SubSeq(p, 1, 2) ELSE <<>>
\* Where the part after the root name starts.
RelStart(p) == IF HasRootName(p) THEN 3 ELSE 1

\* path::filename(): what follows the last separator (or the root name).
Filename(p) ==
    LET from == IF LastSep(p) >= RelStart(p) THEN LastSep(p) + 1 ELSE RelStart(p)
    IN  SubSeq(p, from, Len(p))

\* path::parent_path(): the path without its filename and without the
\* separators in front of it, the root directory kept.
RECURSIVE StripSeps(_, _)
StripSeps(p, keep) ==
    IF Len(p) > keep /\ IsSep(p[Len(p)])
    THEN StripSeps(SubSeq(p, 1, Len(p) - 1), keep)
    ELSE p

ParentPath(p) ==
    LET noFile == SubSeq(p, 1, Len(p) - Len(Filename(p)))
        \* the root directory "C:\" keeps its separator
        keep == IF Len(noFile) >= RelStart(p) /\ IsSep(noFile[RelStart(p)])
                THEN RelStart(p) ELSE RelStart(p) - 1
    IN  StripSeps(noFile, keep)

\* path::operator/ : an absolute right side replaces the left side, a rooted
\* one keeps only the left side's root name, anything else is appended after
\* a separator when the left side ends in a filename.
PathJoin(p, q) ==
    IF HasRootName(q) THEN q
    ELSE IF Len(q) > 0 /\ IsSep(q[1]) THEN RootName(p) \o q
    ELSE IF Len(Filename(p)) > 0 THEN p \o <<Sep>> \o q
    ELSE p \o q

\* std::wstring::resize(size() - n): size_t arithmetic, so a string shorter
\* than n asks for a length near 2^64 and resize throws length_error.
ResizeThrows(s, n) == Len(s) < n
ResizeLess(s, n) == SubSeq(s, 1, Len(s) - n)

Quote == "\""
Quoted(s) == <<Quote>> \o s \o <<Quote>>
Space == <<" ">>

(***************************************************************************)
(* Integer width: DWORD results returned through an int.                   *)
(***************************************************************************)
\* A DWORD is <<high half, low half>>; an int is an integer in
\* -2^31 .. 2^31 - 1.
DW(n) == <<n \div HalfWord, n % HalfWord>>
\* The implicit DWORD -> int conversion of "return exitCode;" / "return err;"
\* (two's complement, 32 bits).
IntOfDword(d) ==
    IF d[1] >= HalfWordSign
    THEN (d[1] - HalfWord) * HalfWord + d[2]
    ELSE d[1] * HalfWord + d[2]
\* The DWORD the host reads back from the int the launcher returned.
DwordOfInt(i) == <<(i \div HalfWord) % HalfWord, i % HalfWord>>

(***************************************************************************)
(* Configurations (config.json as the resolver hands it over).             *)
(***************************************************************************)
None == [present |-> FALSE, val |-> <<>>]
Some(v) == [present |-> TRUE, val |-> v]
NoFlag == [present |-> FALSE, val |-> FALSE]
Flag(b) == [present |-> TRUE, val |-> b]

RECURSIVE Run(_, _)
Run(c, n) == IF n = 0 THEN <<>> ELSE <<c>> \o Run(c, n - 1)

Stems == {Run("a", n) : n \in 0..MaxStemLen} \cup {<<"b", Sep, "a">>}
Endings ==
    { <<>>,
      <<".", "e", "x", "e">>,
      <<".", "E", "X", "E">>,
      <<".", "e", "X", "e">>,
      <<"e", "x", "e">>,
      <<".", "e", "x">>,
      <<".", "t", "x", "t">>,
      <<".", "e", "x", "e", ".", "t">> }
ExeNames == {s \o e : s \in Stems, e \in Endings}

PackageRoots == { <<"C", ":", Sep, "p">> }
WorkingDirs == { None, Some(<<"w">>), Some(<<"w", Sep>>) }
ConfigArgs == { None, Some(<<"-", "f">>) }
HostArgs == { <<>>, <<"x", " ", "y">> }
MonitorExe == <<"m", ".", "e", "x", "e">>
OptFlags == { NoFlag, Flag(FALSE), Flag(TRUE) }

NoMonitor ==
    [present |-> FALSE, executable |-> None, arguments |-> None,
     asadmin |-> NoFlag, wait |-> NoFlag]
Monitors ==
    {NoMonitor} \cup
    [present : {TRUE}, executable : {Some(MonitorExe)}, arguments : {None, Some(<<"-", "m">>)},
     asadmin : OptFlags, wait : OptFlags]

NoAppConfig ==
    [hasApp |-> FALSE, executable |-> <<>>, workingDirectory |-> None, arguments |-> None,
     monitor |-> NoMonitor, packageRoot |-> <<"C", ":", Sep, "p">>, args |-> <<>>]
\* One configuration with longer texts: executable "app.exe", arguments
\* "--flag", no working directory, no monitor, host arguments "x y".
AppExe == <<"a", "p", "p", ".", "e", "x", "e">>
FlagArgument == <<"-", "-", "f", "l", "a", "g">>
AppExeConfig ==
    [hasApp |-> TRUE, executable |-> AppExe, workingDirectory |-> None,
     arguments |-> Some(FlagArgument), monitor |-> NoMonitor,
     packageRoot |-> <<"C", ":", Sep, "p">>, args |-> <<"x", " ", "y">>]
Configs ==
    {NoAppConfig, AppExeConfig} \cup
    [hasApp : {TRUE}, executable : ExeNames, workingDirectory : WorkingDirs,
     arguments : ConfigArgs, monitor : Monitors, packageRoot : PackageRoots, args : HostArgs]

ExitCodeSamples == <<DW(0), DW(3), <<65535, 65535>>, DW(259)>>
ExitCodes == {ExitCodeSamples[i] : i \in 1..MaxExitCodes}

(***************************************************************************)
(* What the operating system may answer.                                   *)
(***************************************************************************)
\* GetLastError() after a failed CreateProcessW of the main application.
CreateErrors == {ERROR_FILE_NOT_FOUND, ERROR_ELEVATION_REQUIRED}
\* GetLastError() after a failed CreateProcessW of the monitor.
MonitorCreateErrors == {ERROR_FILE_NOT_FOUND, ERROR_ELEVATION_REQUIRED}
\* A failed ShellExecuteEx: hInstApp holds an SE_ERR_* value (at most 32) and
\* GetLastError() the Win32 code; the two numbers agree for some failures
\* and differ for others.
ShellFailures ==
    { [hInst |-> SE_ERR_FNF, err |-> ERROR_FILE_NOT_FOUND],
      [hInst |-> SE_ERR_NOASSOC, err |-> ERROR_NO_ASSOCIATION] }
\* A successful ShellExecuteEx under SEE_MASK_NOCLOSEPROCESS: hProcess is the
\* new process, or NULL when no new process was launched.
ShellHandles == {"open", "null"}

\* std::system_category().message(err), with or without the ".\r\n" the OS
\* appends.
Artifact == <<".", "CR", "LF">>
MessageText(err) ==
    IF err = ERROR_FILE_NOT_FOUND THEN <<"n", "o", "f", "i", "l", "e">>
    ELSE <<"e", "r", "r", "o", "r">>
SystemMessage(err, artifact) == MessageText(err) \o (IF artifact THEN Artifact ELSE <<>>)

\* (a wait that does not block)
WaitReturns_early(handle, proc) == TRUE

\* WaitForSingleObject(h, INFINITE) returns: at once on a NULL handle, and on
\* a process handle (valid, and closed by nobody while it is waited on) once
\* the process has exited.
WaitReturns(handle, proc) == handle = "null" \/ proc = "exited"

\* Its result: WAIT_FAILED on a NULL handle, WAIT_OBJECT_0 on a signalled one.
WaitResult(handle) == IF handle = "null" THEN "WAIT_FAILED" ELSE "WAIT_OBJECT_0"

\* An access through a null json_value pointer: the process dies of the
\* access violation, or (SEH exceptions caught by catch (...)) the handler
\* runs.
NullDerefOutcomes == {"crash", "caught"}

\* A pointer to a destroyed temporary path: the bytes may still be there or
\* may have been reused.
DanglingOutcomes == {"intact", "garbage"}

(***************************************************************************)
(* State.                                                                  *)
(***************************************************************************)
VARIABLES
    cfg,         \* the configuration, package root and host arguments
    pc,          \* where launcher_main is
    cmdLine,     \* launcher_main's cmdLine
    wd,          \* launcher_main's wd
    asadmin,     \* the monitor's asadmin, as read
    wait,        \* the monitor's wait, as read
    monStep,     \* LaunchMonitorInBackground: "notcalled", "running", "returned"
    monAttempt,  \* the monitor's launch primitive: "none", "failed", "ok"
    monProc,     \* the monitor process: "none", "running", "exited"
    monHandle,   \* its handle: "none", "open", "null", "closed"
    mainProc,    \* the main application's process
    mainHandle,  \* its handle
    mainExit,    \* the exit code of the main application's process
    hInstApp,    \* shex.hInstApp after ShellExecuteEx
    lastError,   \* the thread's last-error value
    launch,      \* the last call of a main launch primitive
    mainCalls,   \* how many calls of a main launch primitive were made
    mainWaited,  \* WaitForSingleObject was called on the main handle
    waitResult,  \* and what it returned ("none" before)
    reported,    \* what PSFReportError received, in order
    logged,      \* what Log received from the monitor step, in order
    caught,      \* what the catch (...) handler caught
    status       \* the int launcher_main returned (read when pc = "done")

vars ==
    <<cfg, pc, cmdLine, wd, asadmin, wait, monStep, monAttempt, monProc, monHandle,
      mainProc, mainHandle, mainExit, hInstApp, lastError, launch, mainCalls,
      mainWaited, waitResult, reported, logged, caught, status>>

monVars == <<asadmin, wait, monStep, monAttempt, monProc, monHandle, logged>>
mainVars ==
    <<mainProc, mainHandle, mainExit, hInstApp, launch, mainCalls, mainWaited, waitResult>>

NoLaunch ==
    [made |-> FALSE, api |-> "none", ok |-> FALSE, err |-> 0, file |-> <<>>, cmd |-> <<>>,
     verb |-> "none", dir |-> [kind |-> "null", path |-> <<>>]]

Init ==
    /\ cfg \in Configs
    /\ pc = "start"
    /\ cmdLine = <<>>
    /\ wd = <<>>
    /\ asadmin = FALSE
    /\ wait = FALSE
    /\ monStep = "notcalled"
    /\ monAttempt = "none"
    /\ monProc = "none"
    /\ monHandle = "none"
    /\ mainProc = "none"
    /\ mainHandle = "none"
    /\ mainExit = DW(0)
    /\ hInstApp = 0
    /\ lastError = 0
    /\ launch = NoLaunch
    /\ mainCalls = 0
    /\ mainWaited = FALSE
    /\ waitResult = "none"
    /\ reported = <<>>
    /\ logged = <<>>
    /\ caught = "none"
    /\ status = 0

(***************************************************************************)
(* launcher_main's locals that are functions of the configuration.         *)
(***************************************************************************)
exeName == cfg.executable
dirStr == cfg.workingDirectory
exeArgString == IF cfg.arguments.present THEN cfg.arguments.val ELSE <<>>
packageRoot == cfg.packageRoot
exePath == PathJoin(packageRoot, exeName)

\* main.cpp:88
ComposeCmdLine_fullpath == Quoted(exePath) \o Space \o exeArgString \o Space \o cfg.args
ComposeCmdLine == Quoted(Filename(exePath)) \o Space \o exeArgString \o Space \o cfg.args

\* win32_from_caught_exception(): the code of a win32 error, a generic code
\* for anything else.
win32_from_caught_exception(what) ==
    IF what = "win32_not_found" THEN ERROR_NOT_FOUND ELSE ERROR_UNHANDLED_EXCEPTION

\* The catch (...) of launcher_main, main.cpp:224-229.
Catch(what) ==
    /\ caught' = what
    /\ reported' = Append(reported, [kind |-> "exception", path |-> <<>>, msg |-> <<>>,
                                     err |-> win32_from_caught_exception(what)])
    /\ status' = win32_from_caught_exception(what)
    /\ pc' = "done"

\* return x; from launcher_main, x a DWORD.
Return(x) ==
    /\ status' = IntOfDword(x)
    /\ pc' = "done"

(***************************************************************************)
(* launcher_main, main.cpp:65-229.                                         *)
(***************************************************************************)
\* (the monitor step left out)
AfterPlan_nomonitor == "workdir"

\* main.cpp:90-105: the monitor step runs before anything else of the launch.
AfterPlan == IF cfg.monitor.present THEN "monitor" ELSE "workdir"

\* main.cpp:67-88
Plan ==
    /\ pc = "start"
    /\ IF ~cfg.hasApp
       THEN /\ Catch("win32_not_found")
            /\ UNCHANGED cmdLine
       ELSE /\ cmdLine' = ComposeCmdLine
            /\ pc' = AfterPlan
            /\ UNCHANGED <<caught, reported, status>>
    /\ UNCHANGED <<cfg, wd, lastError>>
    /\ UNCHANGED monVars
    /\ UNCHANGED mainVars

\* main.cpp:93-104, up to the call of LaunchMonitorInBackground.  try_get
\* yields a null pointer for an absent key; "executable" and "arguments" are
\* used without a test.
ReadMonitor ==
    /\ pc = "monitor"
    /\ IF ~cfg.monitor.executable.present \/ ~cfg.monitor.arguments.present
       THEN /\ \E o \in NullDerefOutcomes :
                 IF o = "crash"
                 THEN /\ pc' = "crashed"
                      /\ UNCHANGED <<caught, reported, status>>
                 ELSE Catch("access_violation")
            /\ UNCHANGED <<asadmin, wait, monStep>>
       ELSE /\ asadmin' = (IF cfg.monitor.asadmin.present THEN cfg.monitor.asadmin.val ELSE FALSE)
            /\ wait' = (IF cfg.monitor.wait.present THEN cfg.monitor.wait.val ELSE FALSE)
            /\ monStep' = "running"
            /\ pc' = "monLaunch"
            /\ UNCHANGED <<caught, reported, status>>
    /\ UNCHANGED <<cfg, cmdLine, wd, lastError, monAttempt, monProc, monHandle, logged>>
    /\ UNCHANGED mainVars

(***************************************************************************)
(* LaunchMonitorInBackground, main.cpp:232-306.                            *)
(***************************************************************************)
\* return; from LaunchMonitorInBackground, back in launcher_main at line 107.
MonitorReturn ==
    /\ monStep' = "returned"
    /\ pc' = "workdir"

\* (a monitor failure that ends the launch with the monitor's error)
MonitorFailed_fatal(err, text) ==
    /\ monAttempt' = "failed"
    /\ lastError' = err
    /\ logged' = logged \o text
    /\ monStep' = "returned"
    /\ Return(DW(err))

\* main.cpp:269-272 and 294-299: a failed launch is logged (or not even
\* that) and the function returns.
MonitorFailed(err, text) ==
    /\ monAttempt' = "failed"
    /\ lastError' = err
    /\ logged' = logged \o text
    /\ MonitorReturn
    /\ UNCHANGED status

\* main.cpp:295-298
MonitorLogText(err) ==
    IF err = ERROR_ELEVATION_REQUIRED THEN <<"specify monitor/asadmin">> ELSE <<"error">>

\* main.cpp:256-267 and 302-303, by wait and asadmin: what follows a
\* successful launch.
AfterMonitorStarted ==
    IF wait THEN "monWait"
    ELSE IF asadmin THEN "monIdle"
    ELSE "workdir"

\* main.cpp:234-299
MonLaunch ==
    /\ pc = "monLaunch"
    /\ IF asadmin
       THEN \* ShellExecuteEx, verb "runas"
            \E ok \in BOOLEAN :
               IF ok
               THEN \E h \in ShellHandles :
                       /\ monAttempt' = "ok"
                       /\ monHandle' = h
                       /\ monProc' = (IF h = "open" THEN "running" ELSE "none")
                       /\ pc' = AfterMonitorStarted
                       /\ UNCHANGED <<monStep, lastError, logged, status>>
               ELSE \E err \in MonitorCreateErrors :
                       /\ MonitorFailed(err, <<>>)
                       /\ UNCHANGED <<monHandle, monProc>>
       ELSE \* CreateProcessW
            \E ok \in BOOLEAN :
               IF ok
               THEN /\ monAttempt' = "ok"
                    /\ monHandle' = "open"
                    /\ monProc' = "running"
                    /\ pc' = AfterMonitorStarted
                    /\ monStep' = (IF AfterMonitorStarted = "workdir" THEN "returned" ELSE monStep)
                    /\ UNCHANGED <<lastError, logged, status>>
               ELSE \E err \in MonitorCreateErrors :
                       /\ MonitorFailed(err, MonitorLogText(err))
                       /\ UNCHANGED <<monHandle, monProc>>
    /\ UNCHANGED <<cfg, cmdLine, wd, asadmin, wait, reported, caught>>
    /\ UNCHANGED mainVars

\* main.cpp:258-259 and 303: WaitForSingleObject(hProcess, INFINITE), its
\* result not looked at; the elevated path closes the handle.
MonWait ==
    /\ pc = "monWait"
    /\ WaitReturns(monHandle, monProc)
    /\ lastError' = (IF WaitResult(monHandle) = "WAIT_FAILED" THEN ERROR_INVALID_HANDLE ELSE lastError)
    /\ monHandle' = (IF asadmin /\ monHandle = "open" THEN "closed" ELSE monHandle)
    /\ MonitorReturn
    /\ UNCHANGED <<cfg, cmdLine, wd, asadmin, wait, monAttempt, monProc, logged, reported, caught, status>>
    /\ UNCHANGED mainVars

\* main.cpp:263: WaitForInputIdle(hProcess, 1000) comes back within the
\* second, whatever the process does.
MonIdle ==
    /\ pc = "monIdle"
    /\ pc' = "monSleep"
    /\ UNCHANGED <<cfg, cmdLine, wd, lastError, reported, caught, status>>
    /\ UNCHANGED monVars
    /\ UNCHANGED mainVars

\* main.cpp:266: Sleep(5000), then the function returns.
MonSleep ==
    /\ pc = "monSleep"
    /\ MonitorReturn
    /\ UNCHANGED <<cfg, cmdLine, wd, lastError, reported, caught, status>>
    /\ UNCHANGED <<asadmin, wait, monAttempt, monProc, monHandle, logged>>
    /\ UNCHANGED mainVars

(***************************************************************************)
(* launcher_main again: working directory, launch, wait, exit code.        *)
(***************************************************************************)
\* main.cpp:107-123
WorkDir ==
    /\ pc = "workdir"
    /\ LET wdwd == IF ~dirStr.present
                   THEN ParentPath(exePath)
                   ELSE PathJoin(packageRoot, dirStr.val)
       IN  IF ResizeThrows(wdwd, 1)
           THEN /\ Catch("length_error")
                /\ UNCHANGED wd
           ELSE /\ wd' = (IF ~dirStr.present
                          THEN Quoted(ResizeLess(wdwd, 1))
                          ELSE ResizeLess(wdwd, 1))
                /\ pc' = "launch"
                /\ UNCHANGED <<caught, reported, status>>
    /\ UNCHANGED <<cfg, cmdLine, lastError>>
    /\ UNCHANGED monVars
    /\ UNCHANGED mainVars

\* main.cpp:141 and 189: dirStr ? (packageRoot / dirStr).c_str() : nullptr
DirArgument == 
    IF dirStr.present
    THEN [kind |-> "path", path |-> PathJoin(packageRoot, dirStr.val)]
    ELSE [kind |-> "null", path |-> <<>>]

\* What the primitive reads through a pointer into a destroyed temporary.
Dangling(arg, outcome) ==
    IF arg.kind = "path" /\ outcome = "garbage"
    THEN [kind |-> "garbage", path |-> <<>>]
    ELSE arg

\* main.cpp:145-151 and 196-202: the diagnostic handed to PSFReportError.
FailureReport(kind, err, artifact) ==
    [kind |-> kind, path |-> exeName,
     msg |-> ResizeLess(SystemMessage(err, artifact), 3), err |-> err]

\* main.cpp:125
UseDirect == check_suffix_if(exeName, DotExe)

\* main.cpp:127-153
LaunchDirect ==
    \E ok \in BOOLEAN, err \in CreateErrors :
       /\ launch' = [made |-> TRUE, api |-> "CreateProcessW", ok |-> ok,
                     err |-> (IF ok THEN 0 ELSE err), file |-> exePath,
                     cmd |-> cmdLine, verb |-> "none", dir |-> DirArgument]
       /\ mainCalls' = mainCalls + 1
       /\ IF ok
          THEN /\ mainProc' = "running"
               /\ mainHandle' = "open"
               /\ pc' = "wait"
               /\ UNCHANGED <<lastError, reported, status>>
          ELSE \E artifact \in BOOLEAN :
                  /\ lastError' = err
                  /\ reported' = Append(reported, FailureReport("create", err, artifact))
                  /\ Return(DW(err))
                  /\ UNCHANGED <<mainProc, mainHandle>>
       /\ UNCHANGED hInstApp

\* main.cpp:178-204
LaunchShell ==
    \E ok \in BOOLEAN, d \in DanglingOutcomes, f \in ShellFailures :
       /\ launch' = [made |-> TRUE, api |-> "ShellExecuteEx", ok |-> ok,
                     err |-> (IF ok THEN 0 ELSE f.err),
                     file |-> PathJoin(packageRoot, exeName), cmd |-> exeArgString,
                     verb |-> "default", dir |-> Dangling(DirArgument, d)]
       /\ mainCalls' = mainCalls + 1
       /\ IF ok
          THEN \E h \in ShellHandles :
                  /\ hInstApp' = HInstStarted
                  /\ mainHandle' = h
                  /\ mainProc' = (IF h = "open" THEN "running" ELSE "none")
                  /\ pc' = "wait"
                  /\ UNCHANGED <<lastError, reported, status>>
          ELSE \E artifact \in BOOLEAN :
                  /\ hInstApp' = f.hInst
                  /\ lastError' = f.err
                  /\ reported' = Append(reported, FailureReport("shell", f.err, artifact))
                  /\ Return(DW(f.err))
                  /\ UNCHANGED <<mainProc, mainHandle>>

\* main.cpp:125-204
MainLaunch ==
    /\ pc = "launch"
    /\ IF UseDirect THEN LaunchDirect ELSE LaunchShell
    /\ UNCHANGED <<cfg, cmdLine, wd, mainExit, mainWaited, waitResult, caught>>
    /\ UNCHANGED monVars

\* main.cpp:208-220: the value the shell branch returns after its wait.
ShellWaitStatus(result, hInst, err, exit) ==
    IF result = "WAIT_OBJECT_0"
    THEN IF hInst > ShellStartedAbove THEN DW(0) ELSE DW(hInst)
    ELSE IF result = "WAIT_FAILED" THEN DW(err)
    ELSE DW(ERROR_INVALID_HANDLE)

\* (the last error ignored)
DirectWaitStatus_invalid(result, err) == DW(ERROR_INVALID_HANDLE)

\* main.cpp:156-166: the value the direct branch returns after a wait that
\* did not end in WAIT_OBJECT_0.
DirectWaitStatus(result, err) ==
    IF result = "WAIT_FAILED" THEN DW(err) ELSE DW(ERROR_INVALID_HANDLE)

\* main.cpp:156-166 and 208-220: the switch on the result of
\* WaitForSingleObject, err being GetLastError() after the call.
MainWaitReturned(result, err) ==
    /\ mainWaited' = TRUE
    /\ waitResult' = result
    /\ lastError' = err
    /\ IF launch.api = "CreateProcessW"
       THEN IF result = "WAIT_OBJECT_0"
            THEN /\ pc' = "exitcode"
                 /\ UNCHANGED status
            ELSE Return(DirectWaitStatus(result, err))
       ELSE Return(ShellWaitStatus(result, hInstApp, err, mainExit))
    /\ UNCHANGED <<cfg, cmdLine, wd, mainProc, mainHandle, mainExit, hInstApp, launch,
                   mainCalls, reported, caught>>
    /\ UNCHANGED monVars

\* main.cpp:156 and 208: WaitForSingleObject(hProcess, INFINITE) as the OS
\* documents it.
MainWait ==
    /\ pc = "wait"
    /\ WaitReturns(mainHandle, mainProc)
    /\ LET result == WaitResult(mainHandle)
       IN  MainWaitReturned(result, IF result = "WAIT_FAILED" THEN ERROR_INVALID_HANDLE
                                    ELSE lastError)

\* (the exit code dropped)
ExitStatus_zero(exit) == DW(0)

\* main.cpp:173
ExitStatus(exit) == exit

\* main.cpp:168-173: GetExitCodeProcess reads the code of an exited process
\* through its handle.
GetExit ==
    /\ pc = "exitcode"
    /\ IF mainHandle = "open"
       THEN /\ Return(ExitStatus(mainExit))
            /\ UNCHANGED lastError
       ELSE /\ lastError' = ERROR_INVALID_HANDLE
            /\ Return(DW(ERROR_INVALID_HANDLE))
    /\ UNCHANGED <<cfg, cmdLine, wd, reported, caught>>
    /\ UNCHANGED monVars
    /\ UNCHANGED mainVars

(***************************************************************************)
(* The processes the launcher started.                                     *)
(***************************************************************************)
MonitorExits ==
    /\ monProc = "running"
    /\ monProc' = "exited"
    /\ UNCHANGED <<cfg, pc, cmdLine, wd, asadmin, wait, monStep, monAttempt, monHandle,
                   logged, lastError, reported, caught, status>>
    /\ UNCHANGED mainVars

MainExits ==
    /\ mainProc = "running"
    /\ \E code \in ExitCodes :
          /\ mainProc' = "exited"
          /\ mainExit' = code
    /\ UNCHANGED <<cfg, pc, cmdLine, wd, mainHandle, hInstApp, launch, mainCalls,
                   mainWaited, waitResult, lastError, reported, caught, status>>
    /\ UNCHANGED monVars

Next ==
    \/ Plan
    \/ ReadMonitor
    \/ MonLaunch
    \/ MonWait
    \/ MonIdle
    \/ MonSleep
    \/ WorkDir
    \/ MainLaunch
    \/ MainWait
    \/ GetExit
    \/ MonitorExits
    \/ MainExits

Spec == Init /\ [][Next]_vars

(***************************************************************************)
(* The launcher under a fair scheduler.  launcher_main is one thread of    *)
(* straight-line code: each of its steps that can be taken is taken.  The  *)
(* main process, once started, exits; a monitor process exits if the       *)
(* launcher waits for it (wait = true), and is promised nothing otherwise. *)
(***************************************************************************)
LauncherStep ==
    \/ Plan
    \/ ReadMonitor
    \/ MonLaunch
    \/ MonWait
    \/ MonIdle
    \/ MonSleep
    \/ WorkDir
    \/ MainLaunch
    \/ MainWait
    \/ GetExit

WaitedMonitorExits == wait /\ MonitorExits

\* The configurations of the fair runs: one executable of each launch mode,
\* every monitor and every working directory.
FairConfigs ==
    {c \in Configs : c.hasApp => /\ c.executable \in {<<"a">>, <<"a", ".", "e", "x", "e">>}
                                 /\ ~c.arguments.present
                                 /\ c.args = <<>>}

FairInit == Init /\ cfg \in FairConfigs

FairSpec ==
    /\ FairInit
    /\ [][Next]_vars
    /\ WF_vars(LauncherStep)
    /\ WF_vars(MainExits)
    /\ WF_vars(WaitedMonitorExits)

(***************************************************************************)
(* The same launcher under an OS whose wait may come back with any of its  *)
(* results, on either kind of handle: the branches of the two switches     *)
(* that the documented behaviour of a valid process handle never takes.    *)
(***************************************************************************)
WaitResults == {"WAIT_OBJECT_0", "WAIT_FAILED", "WAIT_ABANDONED", "WAIT_TIMEOUT"}
\* GetLastError() after WAIT_FAILED.
WaitErrors == {ERROR_INVALID_HANDLE, ERROR_NOT_FOUND}

\* main.cpp:156 and 208: WaitForSingleObject returns WAIT_OBJECT_0 for an
\* exited process, or any other result at any time.
MainWaitAnyResult ==
    /\ pc = "wait"
    /\ \E result \in WaitResults, err \in WaitErrors :
          /\ result = "WAIT_OBJECT_0" => mainHandle = "open" /\ mainProc = "exited"
          /\ MainWaitReturned(result, IF result = "WAIT_FAILED" THEN err ELSE lastError)

NextAnyWaitResult ==
    \/ Plan
    \/ ReadMonitor
    \/ MonLaunch
    \/ MonWait
    \/ MonIdle
    \/ MonSleep
    \/ WorkDir
    \/ MainLaunch
    \/ MainWaitAnyResult
    \/ GetExit
    \/ MonitorExits
    \/ MainExits

SpecAnyWaitResult == Init /\ [][NextAnyWaitResult]_vars

(***************************************************************************)
(* Properties.                                                             *)
(***************************************************************************)
MainLaunched == launch.made
\* A configuration that names an executable and whose monitor, if any, has
\* its arguments.
NamedExecutable == cfg.hasApp /\ cfg.executable # <<>>
MonitorComplete == cfg.monitor.present => cfg.monitor.arguments.present
MonitorStarted == monAttempt = "ok" /\ monProc # "none"
Returned == pc = "done"

\* C1: with a monitor configured with wait = true (asadmin or not) whose
\* process was started, the main launch primitive has not been called in any
\* state in which the monitor process has not exited; so a monitor that
\* never exits keeps the main application from ever being started.
C1_MainNotBeforeMonitorExit ==
    (cfg.monitor.present /\ wait /\ MonitorStarted /\ monProc # "exited") => ~MainLaunched

\* C1, its case: a waited-for monitor ran and exited, then the main launch
\* was made.
C1_Witness ==
    /\ cfg.monitor.present /\ wait /\ asadmin
    /\ MonitorStarted /\ monProc = "exited"
    /\ MainLaunched

\* C2: whenever the main launch primitive has been called under a
\* configuration with a monitor, LaunchMonitorInBackground (its launch
\* attempt, its waits and its sleep) has already returned; the main launch
\* is never made before or during the monitor step.
C2_MonitorStepBeforeMainLaunch ==
    /\ (cfg.monitor.present /\ MainLaunched) => monStep = "returned"
    /\ (cfg.monitor.present /\ pc \in {"launch", "wait", "exitcode"}) => monStep = "returned"
    /\ pc \in {"monLaunch", "monWait", "monIdle", "monSleep"} => ~MainLaunched /\ monStep = "running"

\* C2, its case: the monitor step took its longest way (elevated, probe and
\* sleep) with the monitor still running, and the main launch followed.
C2_Witness ==
    /\ cfg.monitor.present /\ asadmin /\ ~wait
    /\ monAttempt = "ok" /\ monProc = "running"
    /\ MainLaunched

\* The spellings of ".exe" that differ only in case.
DotExeSpellings ==
    {<<".", e1, x, e2>> : e1 \in {"e", "E"}, x \in {"x", "X"}, e2 \in {"e", "E"}}
EndsInDotExe(name) ==
    \E k \in 0..Len(name) : SubSeq(name, k + 1, Len(name)) \in DotExeSpellings

\* The main launch as the configuration, the package root, the host
\* arguments and the main child's outcome alone decide it; nothing of the
\* monitor enters.
PlannedApi == IF EndsInDotExe(cfg.executable) THEN "CreateProcessW" ELSE "ShellExecuteEx"
PlannedFile == PathJoin(cfg.packageRoot, cfg.executable)
PlannedCmd ==
    IF PlannedApi = "CreateProcessW"
    THEN Quoted(Filename(PlannedFile)) \o Space
            \o (IF cfg.arguments.present THEN cfg.arguments.val ELSE <<>>) \o Space \o cfg.args
    ELSE IF cfg.arguments.present THEN cfg.arguments.val ELSE <<>>
PlannedDirs ==
    IF ~cfg.workingDirectory.present
    THEN {[kind |-> "null", path |-> <<>>]}
    ELSE {[kind |-> "path", path |-> PathJoin(cfg.packageRoot, cfg.workingDirectory.val)]}
            \cup (IF PlannedApi = "ShellExecuteEx"
                  THEN {[kind |-> "garbage", path |-> <<>>]} ELSE {})
PlannedStatus ==
    IF ~launch.ok THEN launch.err
    ELSE IF mainHandle = "null" THEN ERROR_INVALID_HANDLE
    ELSE IF PlannedApi = "CreateProcessW" THEN IntOfDword(mainExit)
    ELSE 0

MonitorAbsentOrFailed == ~cfg.monitor.present \/ monAttempt = "failed"

\* C3: a run without a monitor and a run whose monitor failed to start
\* (creation or elevation failed, ERROR_ELEVATION_REQUIRED without asadmin
\* included) make the same main launch: the primitive, the file, the command
\* line, the directory argument and the returned status are the ones the
\* application configuration and the main child's outcome decide, the
\* monitor's failure is logged at most, and the launch is always made.
C3_MonitorFailureIsolated ==
    MonitorAbsentOrFailed =>
        /\ pc # "crashed"
        /\ MainLaunched =>
              /\ launch.api = PlannedApi
              /\ launch.file = PlannedFile
              /\ launch.cmd = PlannedCmd
              /\ launch.dir \in PlannedDirs
        /\ (Returned /\ cfg.hasApp) =>
              /\ MainLaunched
              /\ caught = "none"
              /\ status = PlannedStatus
              /\ Len(reported) = (IF launch.ok THEN 0 ELSE 1)

\* C3, its case: the monitor needed elevation that was not asked for, it was
\* logged, and the main application ran and its exit code came back.
C3_Witness ==
    /\ Returned
    /\ monAttempt = "failed" /\ ~asadmin
    /\ logged = MonitorLogText(ERROR_ELEVATION_REQUIRED)
    /\ launch.api = "CreateProcessW" /\ launch.ok
    /\ mainExit = DW(3) /\ status = 3

\* C4: in DirectProcess mode with the process created, launcher_main does
\* not return while the child runs (it stays in its wait), and when it
\* returns the child has exited and the status is the child's exit code, the
\* same 32 bits.
C4_DirectReturnsExitCode ==
    (launch.api = "CreateProcessW" /\ launch.ok) =>
        /\ mainProc = "running" => pc = "wait"
        /\ Returned => /\ mainProc = "exited"
                       /\ DwordOfInt(status) = mainExit

\* C4, its case: the child exited with 0xFFFFFFFF and the launcher returned
\* it (-1 as an int).
C4_Witness ==
    /\ Returned
    /\ launch.api = "CreateProcessW" /\ launch.ok
    /\ mainExit = <<65535, 65535>> /\ status = -1

\* C5 (as claimed): in ShellDispatch mode, when ShellExecuteEx gave a status
\* above 32 and a process handle, launcher_main returns that process's exit
\* code, whatever it is.
C5_ShellReturnsExitCode ==
    (/\ Returned
     /\ NamedExecutable
     /\ launch.api = "ShellExecuteEx" /\ launch.ok
     /\ hInstApp > ShellStartedAbove
     /\ mainHandle = "open")
        => /\ mainProc = "exited"
           /\ DwordOfInt(status) = mainExit

\* C6 (as claimed): in ShellDispatch mode, a shell status of 32 or less is
\* returned as it is, with no wait on a process handle.
C6_ShellStatusReturnedDirectly ==
    (/\ NamedExecutable
     /\ launch.api = "ShellExecuteEx" /\ MainLaunched
     /\ hInstApp <= ShellStartedAbove)
        => /\ ~mainWaited
           /\ pc # "wait"
           /\ Returned => status = hInstApp

MainWaitFailed == mainWaited /\ WaitResult(mainHandle) # "WAIT_OBJECT_0"
InvokerFailed ==
    /\ MainLaunched
    /\ \/ ~launch.ok
       \/ MainWaitFailed
       \/ launch.api = "ShellExecuteEx" /\ hInstApp <= ShellStartedAbove

\* C7 (as claimed): on every failure path of the Process Invoker, in either
\* mode, PSFReportError has received a failure string by the time
\* launcher_main returns.
C7_FailuresReported ==
    (Returned /\ NamedExecutable /\ InvokerFailed) => Len(reported) >= 1

\* C8 (as claimed): launcher_main always returns a status; whatever fails
\* inside it is caught at the catch-all, reported, and returned as the mapped
\* error code; on success the status is 0 or the application's exit code.
C8_AlwaysAStatus ==
    NamedExecutable =>
    /\ pc # "crashed"
    /\ caught # "none" =>
          /\ Returned
          /\ Len(reported) >= 1
          /\ status = win32_from_caught_exception(caught)
    /\ (Returned /\ MainLaunched /\ ~InvokerFailed) =>
          (status = 0 \/ DwordOfInt(status) = mainExit)

\* C9 (as claimed): with no matching AppLaunchConfig, or with an empty
\* executable, no launch primitive is called (monitor or main), and
\* launcher_main reports a diagnostic and returns ERROR_NOT_FOUND.  Stated
\* for the configurations whose monitor, if any, is complete.
C9_ConfigurationErrorIsFatal ==
    ((~cfg.hasApp \/ cfg.executable = <<>>) /\ MonitorComplete) =>
        /\ ~MainLaunched
        /\ monAttempt = "none"
        /\ Returned => /\ status = ERROR_NOT_FOUND
                       /\ Len(reported) >= 1

\* C10: the primitive of the main launch is CreateProcessW exactly when the
\* executable name ends in ".exe" in any mix of cases (a name shorter than
\* the suffix does not), and ShellExecuteEx with the default verb otherwise;
\* no invocation calls more than one main primitive, and one that reaches
\* the launch calls exactly one.
C10_ModeBySuffix ==
    /\ MainLaunched =>
          /\ launch.api = "CreateProcessW" <=> EndsInDotExe(cfg.executable)
          /\ launch.api = "ShellExecuteEx" <=> ~EndsInDotExe(cfg.executable)
          /\ launch.api = "ShellExecuteEx" => launch.verb = "default"
    /\ mainCalls <= 1
    /\ MainLaunched <=> mainCalls = 1
    /\ pc \in {"wait", "exitcode"} => mainCalls = 1
    /\ (Returned /\ caught = "none") => mainCalls = 1

\* C10, its case: a name that is the suffix itself, in upper case, went
\* through CreateProcessW.
C10_Witness ==
    /\ cfg.executable = <<".", "E", "X", "E">>
    /\ MainLaunched /\ launch.api = "CreateProcessW"
    /\ mainCalls = 1

\* The working directory has been resolved (main.cpp:107-121 are behind).
PastWorkDir == pc \in {"launch", "wait", "exitcode"} \/ MainLaunched

\* A text with one trailing separator removed, if it has one, and nothing
\* else.
WithoutTrailingSep(s) ==
    IF s # <<>> /\ IsSep(s[Len(s)]) THEN SubSeq(s, 1, Len(s) - 1) ELSE s

\* The working directory as resolved from the configuration alone: the
\* parent directory of the executable, or the package root joined with the
\* configured value, less a trailing separator.
ResolvedWorkingDirectory ==
    IF cfg.workingDirectory.present
    THEN WithoutTrailingSep(PathJoin(cfg.packageRoot, cfg.workingDirectory.val))
    ELSE WithoutTrailingSep(ParentPath(PlannedFile))

\* C11: once the working directory is resolved, it is the parent directory
\* of the executable (no trailing separator) when workingDirectory is
\* absent, and the package root joined with the configured value less only a
\* trailing separator when it is present; no other character is removed.
\* Quotation marks around the text are allowed for.
C11_WorkingDirectoryResolved ==
    (NamedExecutable /\ MonitorComplete /\ PastWorkDir) =>
        wd \in {ResolvedWorkingDirectory, Quoted(ResolvedWorkingDirectory)}

\* The part of a name after its last separator.
RECURSIVE AfterLastSep(_)
AfterLastSep(s) ==
    IF \E i \in 1..Len(s) : IsSep(s[i]) THEN AfterLastSep(Tail(s)) ELSE s

\* C12: in a direct launch the command line passed to CreateProcessW is
\* exactly: a quotation mark, the file name of the executable without its
\* directories, a quotation mark, a space, the configured arguments (empty
\* when absent), a space, the host arguments.
C12_DirectCommandLine ==
    (MainLaunched /\ launch.api = "CreateProcessW") =>
        /\ launch.cmd = <<Quote>> \o AfterLastSep(cfg.executable) \o <<Quote, " ">>
                          \o (IF cfg.arguments.present THEN cfg.arguments.val ELSE <<>>)
                          \o <<" ">> \o cfg.args
        /\ launch.cmd = cmdLine
        /\ launch.file = PlannedFile

\* C12, its case: an executable in a subdirectory, no configured arguments
\* and no host arguments; the command line is the quoted file name and the
\* two spaces.
C12_Witness ==
    /\ cfg.executable = <<"b", Sep, "a", ".", "e", "x", "e">>
    /\ ~cfg.arguments.present /\ cfg.args = <<>>
    /\ MainLaunched /\ launch.api = "CreateProcessW" /\ launch.ok
    /\ launch.cmd = <<Quote, "a", ".", "e", "x", "e", Quote, " ", " ">>

\* C13: with executable "app.exe", arguments "--flag", no working directory
\* and host arguments "x y", the command line of the launch is
\* "app.exe" --flag  x y (two spaces before x) and the working directory of
\* the launch is the parent directory of app.exe.
C13_AppExeLaunch ==
    (cfg = AppExeConfig /\ MainLaunched) =>
        /\ launch.api = "CreateProcessW"
        /\ launch.cmd = <<Quote, "a", "p", "p", ".", "e", "x", "e", Quote, " ",
                          "-", "-", "f", "l", "a", "g", " ", " ", "x", " ", "y">>
        /\ launch.dir = [kind |-> "path", path |-> <<"C", ":", Sep, "p">>]

\* A monitor configured with asadmin = true and wait = false (given or by
\* default).
ElevatedNoWaitMonitor ==
    /\ cfg.monitor.present
    /\ cfg.monitor.asadmin = Flag(TRUE)
    /\ cfg.monitor.wait \in {NoFlag, Flag(FALSE)}

\* C14: for a monitor with asadmin = true and wait = false the launcher
\* asks for an elevated launch, probes for input idle and sleeps only after
\* that launch, never waits for the elevated process to exit, and always
\* goes on to the main launch: it never dies and never returns without
\* having called the main launch primitive, whether the elevated process is
\* running, has exited or was never started.
C14_ElevatedMonitorNeverBlocksMain ==
    ElevatedNoWaitMonitor =>
        /\ pc # "monWait"
        /\ pc \in {"monIdle", "monSleep"} => asadmin /\ monAttempt = "ok"
        /\ pc # "crashed"
        /\ Returned => MainLaunched

\* (the same, for monitors that give their arguments)
C14_WithMonitorArguments == MonitorComplete => C14_ElevatedMonitorNeverBlocksMain

\* C15: when launcher_main has returned, every process handle it obtained
\* (of the monitor, of the main process) has been closed, whichever way it
\* returned.
C15_HandlesReleased ==
    (NamedExecutable /\ Returned) => mainHandle # "open" /\ monHandle # "open"

\* C16: the directory argument given to the main launch primitive is the
\* resolved working directory, a real path, never null and never a pointer
\* that no longer points at the path.
C16_ResolvedDirectoryPassed ==
    (NamedExecutable /\ MainLaunched) =>
        /\ launch.dir.kind = "path"
        /\ launch.dir.path \in {wd, ResolvedWorkingDirectory}

\* A monitor that leaves out one of its optional fields.
MonitorFieldOmitted ==
    /\ cfg.monitor.present
    /\ \/ ~cfg.monitor.arguments.present
       \/ ~cfg.monitor.asadmin.present
       \/ ~cfg.monitor.wait.present

\* C17: with an optional monitor field left out (arguments, asadmin, wait)
\* the defaults apply (asadmin false, wait false) and the launcher neither
\* faults nor ends before the main launch: the monitor is attempted and the
\* main launch follows.
C17_OmittedMonitorFieldsDefault ==
    MonitorFieldOmitted =>
        /\ pc # "crashed"
        /\ caught # "access_violation"
        /\ monStep # "notcalled" =>
              /\ ~cfg.monitor.asadmin.present => ~asadmin
              /\ ~cfg.monitor.wait.present => ~wait
        /\ Returned => MainLaunched /\ monAttempt # "none"

\* C18: after a successful main launch in either mode, a wait that did not
\* end normally decides the status by its class alone: a failed wait returns
\* the OS last-error code, any other result returns ERROR_INVALID_HANDLE;
\* neither the raw wait result nor the exit code of the child enters.
C18_WaitOutcomeStatus ==
    (Returned /\ MainLaunched /\ launch.ok /\ waitResult \notin {"none", "WAIT_OBJECT_0"}) =>
        /\ waitResult = "WAIT_FAILED" => status = lastError
        /\ waitResult # "WAIT_FAILED" => status = ERROR_INVALID_HANDLE

\* C18, its case: a direct launch whose child exited with code 3, and a
\* wait that failed with a last error other than ERROR_INVALID_HANDLE.
C18_Witness ==
    /\ Returned /\ launch.ok /\ launch.api = "CreateProcessW"
    /\ mainProc = "exited" /\ mainExit = DW(3)
    /\ waitResult = "WAIT_FAILED" /\ lastError = ERROR_NOT_FOUND
    /\ status = ERROR_NOT_FOUND

\* C19: when the launch primitive of either mode fails with error code e,
\* whatever the OS message text and whether or not it ends in ".\r\n",
\* exactly one diagnostic is reported; it holds the configured executable
\* path, the message less only that trailing artifact, and the code e; the
\* launcher returns e and never waits.
C19_LaunchFailureDiagnostic ==
    (NamedExecutable /\ MainLaunched /\ ~launch.ok) =>
        /\ Len(reported) = 1
        /\ reported[1].path = cfg.executable
        /\ reported[1].msg = MessageText(launch.err)
        /\ reported[1].err = launch.err
        /\ Returned /\ status = launch.err
        /\ ~mainWaited

\* C20: under a fair scheduler, with a main application that exits once
\* started and a monitor that exits whenever wait = true, launcher_main
\* eventually returns a status; a monitor with wait = false, or one whose
\* launch failed, need not exit for that.
C20_Terminates == <>Returned

\* (the same, for configurations whose monitor gives its arguments)
C20_WithMonitorArguments == <>(Returned \/ ~MonitorComplete)

====
